---------------------------- MODULE Spec2Model ----------------------------
(***************************************************************************)
(* Bank routing service (src/backend/index.js): the start-up load of the   *)
(* two CSV files through the in-memory SQLite database into the `banks`    *)
(* and `graph` maps, the two Dijkstra searches and the two request         *)
(* handlers that call them.                                                *)
(*                                                                         *)
(* JavaScript values: a number is a natural, `undefined` and NaN are the   *)
(* two negative sentinels below.  The priority queue of the `heap` package *)
(* is a bag of entries; pop takes an entry of least distance, any one of   *)
(* them when several tie (the package's tie order is not modelled).        *)
(***************************************************************************)
EXTENDS Integers, Sequences, FiniteSets, Bags, TLC

\* ------------------------------------------------------------------ bounds
MaxEdges == 2
MaxTime == 2
MaxCharge == 1
MaxQueue == 4
MaxWalk == 5
MaxCsvRows == 2

\* BICs a request may name; the enumerated stores use StoreNodes only.
BICs == {"A", "B", "C", "D"}
StoreNodes == {"A", "B", "C"}
LoadNodes == {"A", "B"}

\* ------------------------------------------------------- JavaScript values
Undefined == -1
NaN == -2
NoNode == "undefined"

IsNumber(x) == x >= 0
\* !x is false exactly for a non-zero number (0, NaN and undefined are falsy)
Truthy(x) == x > 0
JsAdd(a, b) == IF IsNumber(a) /\ IsNumber(b) THEN a + b ELSE NaN
JsLess(a, b) == IsNumber(a) /\ IsNumber(b) /\ a < b
JsGreater(a, b) == IsNumber(a) /\ IsNumber(b) /\ a > b

VARIABLES
    \* start-up (startServer, loadDataToDatabase, loadDataToMemory)
    banksCsv,      \* rows of banks.csv not yet delivered as 'data' events
    linksCsv,      \* rows of links.csv not yet delivered as 'data' events
    inflight,      \* INSERT statements handed to db.run and not yet executed
    banksTable,    \* rows of table banks, in rowid order
    linksTable,    \* rows of table links, in rowid order
    lpc,           \* position of startServer
    \* the in-memory store
    banks,         \* BIC -> Charge
    graph,         \* BIC -> sequence of [to, time]
    \* one request
    pc,            \* idle | loop | walk | done | overflow
    caller,        \* service | direct | none
    mode,          \* fastest | cheapest | none
    start,
    end,
    distances,
    predecessors,
    pq,
    pops,          \* pq.pop() calls of the search so far, modulo 2
    current,       \* the backward walk's `current`
    path,          \* the backward walk's `path`, before the reverse
    result,        \* [found, path, weight]
    response       \* HTTP status, 0 when none was sent

loadVars == <<banksCsv, linksCsv, inflight, banksTable, linksTable, lpc>>
storeVars == <<banks, graph>>
reqVars == <<pc, caller, mode, start, end, distances, predecessors, pq, pops,
             current, path, result, response>>
vars == <<loadVars, storeVars, reqVars>>

\* ------------------------------------------------------------ the store
\* banks[x]: undefined for a BIC with no charge record
ChargeOf(n) == IF n \in DOMAIN banks THEN banks[n] ELSE Undefined
\* graph[x] || []
EdgesFrom(n) == IF n \in DOMAIN graph THEN graph[n] ELSE <<>>
\* obj[k] = v
Put(f, k, v) == [x \in (DOMAIN f) \cup {k} |-> IF x = k THEN v ELSE f[x]]
EmptyMap == [x \in {} |-> 0]

\* rows.forEach(row => banks[row.BIC] = row.Charge)
RECURSIVE BuildBanks(_, _)
BuildBanks(rows, b) ==
    IF rows = <<>> THEN b
    ELSE BuildBanks(Tail(rows), Put(b, Head(rows).BIC, Head(rows).Charge))

\* if (!graph[row.FromBIC]) graph[row.FromBIC] = [];
\* graph[row.FromBIC].push({to, time})
PushEdge(g, row) ==
    Put(g, row.FromBIC,
        Append(IF row.FromBIC \in DOMAIN g THEN g[row.FromBIC] ELSE <<>>,
               [to |-> row.ToBIC, time |-> row.TimeTakenInMinutes]))

RECURSIVE BuildGraph(_, _)
BuildGraph(rows, g) ==
    IF rows = <<>> THEN g
    ELSE BuildGraph(Tail(rows), PushEdge(g, Head(rows)))

\* The edges the adjacency lists hold, and the node set: every charge record
\* and every edge endpoint.
EdgeIdx == UNION {{<<n, i>> : i \in 1..Len(graph[n])} : n \in DOMAIN graph}
Edges == {[from |-> x[1], to |-> graph[x[1]][x[2]].to,
           time |-> graph[x[1]][x[2]].time] : x \in EdgeIdx}
NodeSet == (DOMAIN banks) \cup {e.from : e \in Edges} \cup {e.to : e \in Edges}

\* ------------------------------------------------------------ the engine
Entry(n, d) == [node |-> n, distance |-> d]
DistOf(d, n) == IF n \in DOMAIN d THEN d[n] ELSE Undefined
PredOf(p, n) == IF n \in DOMAIN p THEN p[n] ELSE NoNode

\* distances[start] = 0  /  distances[start] = banks[start]
SeedDistance(m, s) == IF m = "fastest" THEN 0 ELSE ChargeOf(s)

\* (mutant) the cheapest search adds the edge's time, as the fastest one does
NewDistTime(m, d, nb) == JsAdd(d, nb.time)

\* current.distance + neighbor.time  /  current.distance + banks[neighbor.to]
NewDist(m, d, nb) ==
    IF m = "fastest" THEN JsAdd(d, nb.time) ELSE JsAdd(d, ChargeOf(nb.to))

\* newDist < (distances[neighbor.to] || Infinity)
IsBetter(newDist, recorded) ==
    IF Truthy(recorded) THEN JsLess(newDist, recorded) ELSE IsNumber(newDist)

\* the body of the for loop, for one neighbour
RelaxEdge(m, cur, nb, st) ==
    LET newDist == NewDist(m, cur.distance, nb) IN
    IF IsBetter(newDist, DistOf(st.dist, nb.to))
    THEN [dist |-> Put(st.dist, nb.to, newDist),
          pred |-> Put(st.pred, nb.to, cur.node),
          pq   |-> st.pq (+) SetToBag({Entry(nb.to, newDist)})]
    ELSE st

\* for (let neighbor of graph[current.node] || [])
RECURSIVE RelaxAll(_, _, _, _)
RelaxAll(m, cur, edges, st) ==
    IF edges = <<>> THEN st
    ELSE RelaxAll(m, cur, Tail(edges), RelaxEdge(m, cur, Head(edges), st))

\* pq.pop(): an entry no other entry is less than
IsMinimal(e, q) == \A o \in BagToSet(q) : ~JsLess(o.distance, e.distance)

\* (mutant) the loop has no early exit
StopsNever(e, t) == FALSE

\* if (current.node === end) break;
StopsAt(e, t) == e.node = t
\* if (current.distance > distances[current.node]) continue;
IsStale(e, d) == JsGreater(e.distance, DistOf(d, e.node))

NullResult == [found |-> FALSE, path |-> <<>>, weight |-> Undefined]

RECURSIVE Reverse(_)
Reverse(s) == IF s = <<>> THEN <<>> ELSE Append(Reverse(Tail(s)), Head(s))

\* the handler's answer to the engine's result
StatusOf(c, res) == IF c # "service" THEN 0 ELSE IF res.found THEN 200 ELSE 404

Finish(res) ==
    /\ pc' = "done"
    /\ result' = res
    /\ response' = StatusOf(caller, res)

\* lines 83-87 / 119-123
Begin(c, m, s, t) ==
    /\ pc' = "loop"
    /\ caller' = c
    /\ mode' = m
    /\ start' = s
    /\ end' = t
    /\ distances' = Put(EmptyMap, s, SeedDistance(m, s))
    /\ predecessors' = EmptyMap
    /\ pq' = SetToBag({Entry(s, SeedDistance(m, s))})
    /\ UNCHANGED <<pops, current, path, result, response>>

\* !banks[fromBank] || !banks[toBank]
Invalid(from, to) == ~Truthy(ChargeOf(from)) \/ ~Truthy(ChargeOf(to))

Reject(m, from, to) ==
    /\ pc' = "done"
    /\ caller' = "service"
    /\ mode' = m
    /\ start' = from
    /\ end' = to
    /\ response' = 400
    /\ UNCHANGED <<distances, predecessors, pq, pops, current, path, result>>

\* app.post('/api/fastestroute')
FastestRoute(from, to) ==
    /\ lpc = "listening"
    /\ pc = "idle"
    /\ IF Invalid(from, to) THEN Reject("fastest", from, to)
       ELSE Begin("service", "fastest", from, to)
    /\ UNCHANGED <<loadVars, storeVars>>

\* app.post('/api/cheapestroute')
CheapestRoute(from, to) ==
    /\ lpc = "listening"
    /\ pc = "idle"
    /\ IF Invalid(from, to) THEN Reject("cheapest", from, to)
       ELSE Begin("service", "cheapest", from, to)
    /\ UNCHANGED <<loadVars, storeVars>>

\* dijkstraFastest(start, end) called on two nodes of the store that the
\* handler does not pass on (the search of the others is FastestRoute's)
dijkstraFastest(s, t) ==
    /\ lpc = "listening"
    /\ pc = "idle"
    /\ s \in NodeSet /\ t \in NodeSet
    /\ Invalid(s, t)
    /\ Begin("direct", "fastest", s, t)
    /\ UNCHANGED <<loadVars, storeVars>>

\* dijkstraCheapest(start, end) called on two nodes of the store that the
\* handler does not pass on (the search of the others is CheapestRoute's)
dijkstraCheapest(s, t) ==
    /\ lpc = "listening"
    /\ pc = "idle"
    /\ s \in NodeSet /\ t \in NodeSet
    /\ Invalid(s, t)
    /\ Begin("direct", "cheapest", s, t)
    /\ UNCHANGED <<loadVars, storeVars>>

\* what follows the while loop: line 104 / 140, and the walk's set-up
AfterLoop(d, p, q) ==
    /\ distances' = d
    /\ predecessors' = p
    /\ pq' = q
    /\ IF end \notin DOMAIN d
       THEN Finish(NullResult) /\ UNCHANGED <<current, path>>
       ELSE /\ pc' = "walk"
            /\ current' = end
            /\ path' = <<>>
            /\ UNCHANGED <<result, response>>

\* one iteration of the while loop (lines 89-102 / 125-138)
SearchStep ==
    /\ pc = "loop"
    /\ pops' = (pops + 1) % 2
    /\ \E e \in BagToSet(pq) :
        /\ IsMinimal(e, pq)
        /\ LET rest == pq (-) SetToBag({e})
               st0  == [dist |-> distances, pred |-> predecessors, pq |-> rest]
               st   == IF StopsAt(e, end) \/ IsStale(e, distances) THEN st0
                       ELSE RelaxAll(mode, e, EdgesFrom(e.node), st0)
           IN  IF BagCardinality(st.pq) > MaxQueue
               THEN /\ pc' = "overflow"
                    /\ UNCHANGED <<distances, predecessors, pq, current, path,
                                   result, response>>
               ELSE IF StopsAt(e, end) \/ BagCardinality(st.pq) = 0
               THEN AfterLoop(st.dist, st.pred, st.pq)
               ELSE /\ distances' = st.dist
                    /\ predecessors' = st.pred
                    /\ pq' = st.pq
                    /\ UNCHANGED <<pc, current, path, result, response>>
    /\ UNCHANGED <<loadVars, storeVars, caller, mode, start, end>>

\* one iteration of the backward walk (lines 108-111 / 144-147)
WalkStep ==
    /\ pc = "walk"
    /\ current # start
    /\ IF Len(path) >= MaxWalk
       THEN pc' = "overflow" /\ UNCHANGED <<current, path>>
       ELSE /\ path' = Append(path, current)
            /\ current' = PredOf(predecessors, current)
            /\ UNCHANGED pc
    /\ UNCHANGED <<loadVars, storeVars, caller, mode, start, end, distances,
                   predecessors, pq, pops, result, response>>

\* lines 112-114 / 148-150, and the handler's answer
Return ==
    /\ pc = "walk"
    /\ current = start
    /\ Finish([found |-> TRUE,
               path |-> Reverse(Append(path, start)),
               weight |-> DistOf(distances, end)])
    /\ UNCHANGED <<loadVars, storeVars, caller, mode, start, end, distances,
                   predecessors, pq, pops, current, path>>

\* ------------------------------------------------------------ start-up
Idle ==
    /\ pc = "idle"
    /\ caller = "none"
    /\ mode = "none"
    /\ start = NoNode
    /\ end = NoNode
    /\ distances = EmptyMap
    /\ predecessors = EmptyMap
    /\ pq = EmptyBag
    /\ pops = 0
    /\ current = NoNode
    /\ path = <<>>
    /\ result = NullResult
    /\ response = 0

SeqsUpTo(S, n) == UNION {[1..k -> S] : k \in 0..n}
BankRows(nodes) == [BIC : nodes, Charge : 0..MaxCharge]
LinkRows(nodes, times) ==
    [FromBIC : nodes, ToBIC : nodes, TimeTakenInMinutes : times]

\* INSERT INTO banks: BIC is the primary key, a second row of a BIC fails
InsertBank(table, row) ==
    IF \E i \in 1..Len(table) : table[i].BIC = row.BIC THEN table
    ELSE Append(table, row)

Stmt(t, r) == [table |-> t, row |-> r]

\* the state when startServer is entered, the two tables created and empty
LoadInit ==
    /\ banksCsv \in SeqsUpTo(BankRows(LoadNodes), MaxCsvRows)
    /\ linksCsv \in SeqsUpTo(LinkRows(LoadNodes, {1}), MaxCsvRows)
    /\ inflight = EmptyBag
    /\ banksTable = <<>>
    /\ linksTable = <<>>
    /\ lpc = "readBanks"
    /\ banks = EmptyMap
    /\ graph = EmptyMap
    /\ Idle

\* banks.csv 'data': db.run(INSERT ...) is handed to the database, not awaited
BanksData ==
    /\ lpc = "readBanks"
    /\ banksCsv # <<>>
    /\ inflight' = inflight (+) SetToBag({Stmt("banks", Head(banksCsv))})
    /\ banksCsv' = Tail(banksCsv)
    /\ UNCHANGED <<linksCsv, banksTable, linksTable, lpc, storeVars, reqVars>>

\* banks.csv 'end': the first promise resolves, links.csv is opened
BanksEnd ==
    /\ lpc = "readBanks"
    /\ banksCsv = <<>>
    /\ lpc' = "readLinks"
    /\ UNCHANGED <<banksCsv, linksCsv, inflight, banksTable, linksTable,
                   storeVars, reqVars>>

\* links.csv 'data'
LinksData ==
    /\ lpc = "readLinks"
    /\ linksCsv # <<>>
    /\ inflight' = inflight (+) SetToBag({Stmt("links", Head(linksCsv))})
    /\ linksCsv' = Tail(linksCsv)
    /\ UNCHANGED <<banksCsv, banksTable, linksTable, lpc, storeVars, reqVars>>

\* links.csv 'end': loadDataToDatabase returns, loadDataToMemory issues db.all
LinksEnd ==
    /\ lpc = "readLinks"
    /\ linksCsv = <<>>
    /\ lpc' = "selectBanks"
    /\ UNCHANGED <<banksCsv, linksCsv, inflight, banksTable, linksTable,
                   storeVars, reqVars>>

\* the database executes one of the statements it was handed; outside
\* db.serialize() they run in parallel, in no promised order
ExecInsert ==
    /\ \E st \in BagToSet(inflight) :
        /\ inflight' = inflight (-) SetToBag({st})
        /\ IF st.table = "banks"
           THEN /\ banksTable' = InsertBank(banksTable, st.row)
                /\ UNCHANGED linksTable
           ELSE /\ linksTable' = Append(linksTable, st.row)
                /\ UNCHANGED banksTable
    /\ UNCHANGED <<banksCsv, linksCsv, lpc, storeVars, reqVars>>

\* SELECT * FROM banks and its callback
SelectBanks ==
    /\ lpc = "selectBanks"
    /\ banks' = BuildBanks(banksTable, banks)
    /\ lpc' = "selectLinks"
    /\ UNCHANGED <<banksCsv, linksCsv, inflight, banksTable, linksTable, graph,
                   reqVars>>

\* SELECT * FROM links and its callback
SelectLinks ==
    /\ lpc = "selectLinks"
    /\ graph' = BuildGraph(linksTable, graph)
    /\ lpc' = "listen"
    /\ UNCHANGED <<banksCsv, linksCsv, inflight, banksTable, linksTable, banks,
                   reqVars>>

\* app.listen(3000)
Listen ==
    /\ lpc = "listen"
    /\ lpc' = "listening"
    /\ UNCHANGED <<banksCsv, linksCsv, inflight, banksTable, linksTable,
                   storeVars, reqVars>>

LoadNext ==
    \/ BanksData
    \/ BanksEnd
    \/ LinksData
    \/ LinksEnd
    \/ ExecInsert
    \/ SelectBanks
    \/ SelectLinks
    \/ Listen

LoadSpec == LoadInit /\ [][LoadNext]_vars

\* ------------------------------------------------------------ serving
\* The stores a completed load can leave: Fastest reads the times and only
\* whether a charge is non-zero, Cheapest reads the charges and no time.
BankMaps == UNION {[S -> 0..MaxCharge] : S \in SUBSET StoreNodes}
TimeStores ==
    {[banks |-> [n \in StoreNodes |-> 1], rows |-> r] :
        r \in SeqsUpTo(LinkRows(StoreNodes, 0..MaxTime), MaxEdges)}
ChargeStores ==
    {[banks |-> b, rows |-> r] :
        b \in BankMaps, r \in SeqsUpTo(LinkRows(StoreNodes, {1}), MaxEdges)}
Link(f, t, m) == [FromBIC |-> f, ToBIC |-> t, TimeTakenInMinutes |-> m]
\* the scenario of the specification's section 8, and a four-node store
ScenarioStores ==
    {[banks |-> [n \in {"A", "B", "C"} |-> IF n = "B" THEN 2 ELSE 1],
      rows  |-> <<Link("A", "B", 4), Link("B", "C", 1), Link("A", "C", 10)>>],
     [banks |-> [n \in BICs |-> 1],
      rows  |-> <<Link("A", "B", 0), Link("A", "C", 1), Link("C", "B", 1),
                  Link("B", "D", 2)>>]}
Stores == TimeStores \cup ChargeStores \cup ScenarioStores

Init ==
    /\ banksCsv = <<>>
    /\ linksCsv = <<>>
    /\ inflight = EmptyBag
    /\ banksTable = <<>>
    /\ linksTable = <<>>
    /\ lpc = "listening"
    /\ \E s \in Stores :
        /\ banks = s.banks
        /\ graph = BuildGraph(s.rows, EmptyMap)
    /\ Idle

Next ==
    \/ \E from \in BICs, to \in BICs : FastestRoute(from, to)
    \/ \E from \in BICs, to \in BICs : CheapestRoute(from, to)
    \/ \E s \in BICs, t \in BICs : dijkstraFastest(s, t)
    \/ \E s \in BICs, t \in BICs : dijkstraCheapest(s, t)
    \/ SearchStep
    \/ WalkStep
    \/ Return

Spec == Init /\ [][Next]_vars

\* the synchronous search runs on: every enabled step is eventually taken
LiveSpec == Init /\ [][Next]_vars /\ WF_vars(Next)

\* ------------------------------------------------------------ reference
\* Weights of the routes of the graph, computed apart from the search.
Min(S) == CHOOSE x \in S : \A y \in S : x <= y
HopWeight(m, e) == IF m = "fastest" THEN e.time ELSE ChargeOf(e.to)
\* one more edge: W maps each node to the weights of the routes found so far
Extend(m, W) ==
    [n \in BICs |->
        W[n] \cup UNION {{w + HopWeight(m, e) : w \in W[e.from]} :
                           e \in {x \in Edges : /\ x.to = n
                                                /\ IsNumber(HopWeight(m, x))}}]
RECURSIVE Routes(_, _, _)
Routes(m, W, k) == IF k = 0 THEN W ELSE Routes(m, Extend(m, W), k - 1)
\* the weights of the routes from s to t of at most Cardinality(BICs) edges
RouteWeights(m, s, t) ==
    Routes(m, [n \in BICs |-> IF n = s THEN {SeedDistance(m, s)} ELSE {}],
           Cardinality(BICs))[t]
Reachable(s, t) == RouteWeights("fastest", s, t) # {}
AllCharged == \A n \in NodeSet : IsNumber(ChargeOf(n))

\* the weights the node sequence p can have, one edge chosen for every hop
RECURSIVE PathWeights(_, _)
PathWeights(m, p) ==
    IF Len(p) = 1 THEN {SeedDistance(m, p[1])}
    ELSE LET n == Len(p)
             hops == {e \in Edges : e.from = p[n - 1] /\ e.to = p[n]}
         IN  {JsAdd(w, HopWeight(m, e)) :
                 e \in hops, w \in PathWeights(m, SubSeq(p, 1, n - 1))}

\* a search was made and has returned
Searched == pc = "done" /\ response # 400

\* ------------------------------------------------------------ claims
\* C1: whenever end is reachable from start, dijkstraFastest returns the least
\* total time of any directed route from start to end.
FastestOptimal ==
    (Searched /\ mode = "fastest" /\ Reachable(start, end))
        => /\ result.found
           /\ result.weight = Min(RouteWeights("fastest", start, end))

SearchTerminates ==
    [](caller = "service" => <>(pc = "done" \/ pc = "overflow"))

\* C4: a request is answered 400 exactly when fromBank or toBank is not in the
\* node set (charge records and edge endpoints).
InvalidNodeIffAbsent ==
    (pc = "done" /\ caller = "service")
        => (response = 400 <=> (start \notin NodeSet \/ end \notin NodeSet))

\* C5: a request on two valid nodes is answered 404 exactly when no directed
\* path leads from start to end.
NoPathIffDisconnected ==
    (Searched /\ caller = "service")
        => (response = 404 <=> ~Reachable(start, end))

\* C6: a search from a node to itself stops at the first pop, before any
\* relaxation, and returns [start] with weight 0 (Fastest) or the start's
\* charge (Cheapest).
DegenerateQuery ==
    (start = end /\ pc \in {"walk", "done", "overflow"} /\ response # 400)
        => /\ pc # "overflow"
           /\ predecessors = EmptyMap
           /\ DOMAIN distances = {start}
           /\ pc = "done" =>
                /\ result.found
                /\ result.path = <<start>>
                /\ result.weight = IF mode = "fastest" THEN 0 ELSE ChargeOf(start)
\* such a request on a start with a charge, a self-loop and another edge
DegenerateQueryWitness ==
    /\ Searched /\ start = end /\ mode = "cheapest"
    /\ caller = "service"
    /\ result.weight = ChargeOf(start)
    /\ \E e \in Edges : e.from = start /\ e.to = start
    /\ \E e \in Edges : e.from = start /\ e.to # start

\* C7: when the only edges of the graph are parallel edges start -> end,
\* Fastest returns the least of their times.
ParallelEdgesMin ==
    (/\ Searched /\ mode = "fastest" /\ start # end
     /\ Edges # {}
     /\ \A e \in Edges : e.from = start /\ e.to = end)
        => /\ result.found
           /\ result.weight = Min({e.time : e \in Edges})

\* C8: the server listens only once every row handed to the database has been
\* inserted and both tables have been copied whole into banks and graph.
LoadedBeforeServe ==
    lpc = "listening"
        => /\ BagCardinality(inflight) = 0
           /\ banks = BuildBanks(banksTable, EmptyMap)
           /\ graph = BuildGraph(linksTable, EmptyMap)

\* C9: a returned path starts at start, ends at end, follows edges of the
\* graph, and the returned weight is the weight of that path.
ResultConsistent ==
    (Searched /\ result.found)
        => LET p == result.path IN
           /\ p[1] = start
           /\ p[Len(p)] = end
           /\ \A i \in 1..Len(p) - 1 :
                \E e \in Edges : e.from = p[i] /\ e.to = p[i + 1]
           /\ result.weight \in PathWeights(mode, p)

\* C10: in every step of a search the recorded distance of a node stays or
\* gets smaller.
DistanceNeverIncreases ==
    [][\A n \in DOMAIN distances :
          /\ n \in DOMAIN distances'
          /\ ~JsGreater(distances'[n], distances[n])]_vars

=============================================================================
